---- MODULE Spec2Model ----
(***************************************************************************)
(* A model of notebooks/file_utils.py: the QiskitEncoder hook, save_to_json *)
(* and the two loaders load_properties / load_result, over one file.       *)
(*                                                                         *)
(* Text is modelled character by character (a sequence of one-character    *)
(* strings), so that chunked writes, truncation, file offsets and parsing  *)
(* are all computed on the text the code really produces.                  *)
(***************************************************************************)
EXTENDS Integers, Sequences, FiniteSets, TLC

(***************************************************************************)
(* Bounds of the model.                                                    *)
(***************************************************************************)
\* longest list / largest number of mapping entries in a generated input
MaxLen == 2
\* number of calls one caller makes in a behaviour of Spec
MaxCalls == 2
\* number of concurrently running save_to_json calls in SpecConc
NumWriters == 2

(***************************************************************************)
(* Python values.  Every value is a record with a tag t.                   *)
(*   native JSON values : int, float, str, none, list, dict                *)
(*   everything else    : obj, described by what the encoder hook can see: *)
(*     attrs  the attributes among tolist / to_dict the object has         *)
(*     isa    the class test that succeeds: "complex", "datetime", the     *)
(*            domain classes "Result" / "BackendProperties", or "object"   *)
(*     lst    what tolist() returns,  map  what to_dict() returns          *)
(*     re,im  the parts of a complex, dt  the fields of a datetime         *)
(***************************************************************************)
PyInt(n) == [t |-> "int", n |-> n]
PyFloat(n, frac) == [t |-> "float", whole |-> n, frac |-> frac]
PyStr(s) == [t |-> "str", s |-> s]
PyNone == [t |-> "none"]
PyList(xs) == [t |-> "list", items |-> xs]
PyDict(ks, vs) == [t |-> "dict", keys |-> ks, vals |-> vs]

NoDate == [year |-> 0, month |-> 0, day |-> 0, hour |-> 0, minute |-> 0,
           second |-> 0, microsecond |-> 0]
PyObj(attrs, isa, lst, map, re, im, dt) ==
    [t |-> "obj", attrs |-> attrs, isa |-> isa, lst |-> lst, map |-> map,
     re |-> re, im |-> im, dt |-> dt]

\* a complex number re + im j (a builtin: neither tolist nor to_dict)
PyComplex(re, im) == PyObj({}, "complex", PyNone, PyNone, re, im, NoDate)
\* a datetime
PyDatetime(dt) == PyObj({}, "datetime", PyNone, PyNone, 0, 0, dt)
\* an array-like object: tolist() returns lst
ArrayLike(lst) == PyObj({"tolist"}, "object", lst, PyNone, 0, 0, NoDate)
\* a domain object of class cls whose to_dict() returns map
DomainObj(cls, map) == PyObj({"to_dict"}, cls, PyNone, map, 0, 0, NoDate)
\* an object no branch of the encoder applies to
Unsupported == PyObj({}, "object", PyNone, PyNone, 0, 0, NoDate)

(***************************************************************************)
(* Number and timestamp formatting.                                        *)
(***************************************************************************)
Digits == <<"0", "1", "2", "3", "4", "5", "6", "7", "8", "9">>
DigitChar(d) == Digits[d + 1]

RECURSIVE NatStr(_)
NatStr(n) == IF n < 10 THEN <<DigitChar(n)>>
             ELSE NatStr(n \div 10) \o <<DigitChar(n % 10)>>

\* int.__repr__
IntStr(n) == IF n < 0 THEN <<"-">> \o NatStr(-n) ELSE NatStr(n)

\* float.__repr__ of the float whole.frac
FloatStr(n, frac) == IntStr(n) \o <<".">> \o frac

\* "%0<w>d" % n
RECURSIVE Pad(_, _)
Pad(n, w) == IF w = 0 THEN <<>>
             ELSE Pad(n \div 10, w - 1) \o <<DigitChar(n % 10)>>

\* datetime.isoformat() of a naive datetime
isoformat(dt) ==
    Pad(dt.year, 4) \o <<"-">> \o Pad(dt.month, 2) \o <<"-">> \o Pad(dt.day, 2)
    \o <<"T">> \o Pad(dt.hour, 2) \o <<":">> \o Pad(dt.minute, 2)
    \o <<":">> \o Pad(dt.second, 2)
    \o (IF dt.microsecond = 0 THEN <<>>
        ELSE <<".">> \o Pad(dt.microsecond, 6))

(***************************************************************************)
(* QiskitEncoder.default: the hook the serializer calls for a value it     *)
(* does not support natively.  Returns [raised, val].                      *)
(***************************************************************************)
Return(v) == [raised |-> FALSE, val |-> v]
RaiseTypeError == [raised |-> TRUE, val |-> PyNone]

\* the branch of default that decides obj: 1..4, or 5 for the fallback
DefaultBranchSwapped(obj) ==
    IF "to_dict" \in obj.attrs THEN 4
    ELSE IF "tolist" \in obj.attrs THEN 1
    ELSE IF obj.isa = "complex" THEN 2
    ELSE IF obj.isa = "datetime" THEN 3
    ELSE 5

DefaultBranch(obj) ==
    IF "tolist" \in obj.attrs THEN 1
    ELSE IF obj.isa = "complex" THEN 2
    ELSE IF obj.isa = "datetime" THEN 3
    ELSE IF "to_dict" \in obj.attrs THEN 4
    ELSE 5

\* the hook with a fallback value in place of the error
defaultNullFallback(obj) ==
    CASE DefaultBranch(obj) = 1 -> Return(obj.lst)
      [] DefaultBranch(obj) = 2 ->
            Return(PyList(<<PyFloat(obj.re, <<"0">>), PyFloat(obj.im, <<"0">>)>>))
      [] DefaultBranch(obj) = 3 -> Return(PyStr(isoformat(obj.dt)))
      [] DefaultBranch(obj) = 4 -> Return(obj.map)
      [] OTHER -> Return(PyNone)

\* the hook with the timestamp branch returning the object's mapping form
defaultNoTimestamp(obj) ==
    CASE DefaultBranch(obj) = 1 -> Return(obj.lst)
      [] DefaultBranch(obj) = 2 ->
            Return(PyList(<<PyFloat(obj.re, <<"0">>), PyFloat(obj.im, <<"0">>)>>))
      [] DefaultBranch(obj) = 3 -> Return(obj.map)
      [] DefaultBranch(obj) = 4 -> Return(obj.map)
      [] OTHER -> RaiseTypeError

default(obj) ==
    CASE DefaultBranch(obj) = 1 -> Return(obj.lst)
      [] DefaultBranch(obj) = 2 ->
            Return(PyList(<<PyFloat(obj.re, <<"0">>), PyFloat(obj.im, <<"0">>)>>))
      [] DefaultBranch(obj) = 3 -> Return(PyStr(isoformat(obj.dt)))
      [] DefaultBranch(obj) = 4 -> Return(obj.map)
      [] OTHER -> RaiseTypeError

(***************************************************************************)
(* json.dump's chunk generator (the pure-Python iterencode json.dump       *)
(* uses), with QiskitEncoder.default as its hook.  The result is the       *)
(* sequence of chunks yielded, and whether a TypeError ended it.           *)
(***************************************************************************)
Quote == "\""
EncodeStr(s) == <<Quote>> \o s \o <<Quote>>

IsPrimitive(v) == v.t \in {"str", "none", "int", "float"}
PrimText(v) ==
    CASE v.t = "str" -> EncodeStr(v.s)
      [] v.t = "none" -> <<"n", "u", "l", "l">>
      [] v.t = "int" -> IntStr(v.n)
      [] v.t = "float" -> FloatStr(v.whole, v.frac)

Yield(chunk) == [chunks |-> <<chunk>>, err |-> FALSE]
Then(a, b) == IF a.err THEN a
              ELSE [chunks |-> a.chunks \o b.chunks, err |-> b.err]

RECURSIVE IterEncode(_)
RECURSIVE IterEncodeList(_, _)
RECURSIVE IterEncodeDict(_, _, _)

\* _iterencode_list, from item i on
IterEncodeList(items, i) ==
    IF items = <<>> THEN Yield(<<"[", "]">>)
    ELSE IF i > Len(items) THEN Yield(<<"]">>)
    ELSE LET buf == IF i = 1 THEN <<"[">> ELSE <<",", " ">>
             value == items[i]
         IN  IF IsPrimitive(value)
             THEN Then(Yield(buf \o PrimText(value)), IterEncodeList(items, i + 1))
             ELSE Then(Yield(buf),
                       Then(IterEncode(value), IterEncodeList(items, i + 1)))

\* _iterencode_dict, from entry i on
IterEncodeDict(keys, vals, i) ==
    IF keys = <<>> THEN Yield(<<"{", "}">>)
    ELSE IF i > Len(keys) THEN Yield(<<"}">>)
    ELSE LET head == IF i = 1 THEN Yield(<<"{">>) ELSE Yield(<<",", " ">>)
             key == Then(Yield(EncodeStr(keys[i])), Yield(<<":", " ">>))
             value == vals[i]
             body == IF IsPrimitive(value) THEN Yield(PrimText(value))
                     ELSE IterEncode(value)
         IN  Then(head, Then(key, Then(body, IterEncodeDict(keys, vals, i + 1))))

\* _iterencode
IterEncode(o) ==
    IF IsPrimitive(o) THEN Yield(PrimText(o))
    ELSE IF o.t = "list" THEN IterEncodeList(o.items, 1)
    ELSE IF o.t = "dict" THEN IterEncodeDict(o.keys, o.vals, 1)
    ELSE LET d == default(o)
         IN  IF d.raised THEN [chunks |-> <<>>, err |-> TRUE]
             ELSE IterEncode(d.val)

RECURSIVE Concat(_)
Concat(chunks) == IF chunks = <<>> THEN <<>>
                  ELSE Head(chunks) \o Concat(Tail(chunks))

(***************************************************************************)
(* json.load: the JSON parser, on the text of the file.  Each parsing      *)
(* operator returns [ok, val, next]: whether a value was recognised at     *)
(* position i, the value, and the position after it.                       *)
(***************************************************************************)
ParseFail == [ok |-> FALSE, val |-> PyNone, next |-> 0]
Parsed(v, n) == [ok |-> TRUE, val |-> v, next |-> n]

IsDigit(c) == \E d \in 1..10 : Digits[d] = c
DigitVal(c) == (CHOOSE d \in 1..10 : Digits[d] = c) - 1

RECURSIVE SkipWs(_, _)
SkipWs(s, i) == IF i <= Len(s) /\ s[i] = " " THEN SkipWs(s, i + 1) ELSE i

\* the end of the run of digits starting at i
RECURSIVE DigitsEnd(_, _)
DigitsEnd(s, i) == IF i <= Len(s) /\ IsDigit(s[i]) THEN DigitsEnd(s, i + 1) ELSE i

RECURSIVE NatOf(_)
NatOf(ds) == IF ds = <<>> THEN 0
             ELSE 10 * NatOf(SubSeq(ds, 1, Len(ds) - 1)) + DigitVal(ds[Len(ds)])

\* NUMBER_RE: (-?(?:0|[1-9]\d*))(\.\d+)?
ParseNumber(s, i) ==
    LET neg == s[i] = "-"
        j == IF neg THEN i + 1 ELSE i
        k == IF j <= Len(s) /\ s[j] = "0" THEN j + 1 ELSE DigitsEnd(s, j)
        whole == IF neg THEN - NatOf(SubSeq(s, j, k - 1)) ELSE NatOf(SubSeq(s, j, k - 1))
        m == IF k < Len(s) /\ s[k] = "." THEN DigitsEnd(s, k + 1) ELSE k
    IN  IF k = j THEN ParseFail
        ELSE IF m > k + 1 THEN Parsed(PyFloat(whole, SubSeq(s, k + 1, m - 1)), m)
        ELSE Parsed(PyInt(whole), k)

\* the position of the closing quote of the string whose text starts at i
RECURSIVE StringEnd(_, _)
StringEnd(s, i) == IF i > Len(s) THEN 0
                   ELSE IF s[i] = Quote THEN i
                   ELSE StringEnd(s, i + 1)

ParseString(s, i) ==
    LET e == StringEnd(s, i + 1)
    IN  IF e = 0 THEN ParseFail ELSE Parsed(PyStr(SubSeq(s, i + 1, e - 1)), e + 1)

ParseNull(s, i) ==
    IF i + 3 <= Len(s) /\ SubSeq(s, i, i + 3) = <<"n", "u", "l", "l">>
    THEN Parsed(PyNone, i + 4) ELSE ParseFail

RECURSIVE ParseValue(_, _)
RECURSIVE ParseArrayItems(_, _, _)
RECURSIVE ParseObjectItems(_, _, _, _)

\* JSONArray after "[": items read so far in acc, next item expected at i
ParseArrayItems(s, i, acc) ==
    LET r == ParseValue(s, i)
        j == SkipWs(s, r.next)
    IN  IF ~r.ok \/ j > Len(s) THEN ParseFail
        ELSE IF s[j] = "]" THEN Parsed(PyList(Append(acc, r.val)), j + 1)
        ELSE IF s[j] = "," THEN ParseArrayItems(s, SkipWs(s, j + 1), Append(acc, r.val))
        ELSE ParseFail

\* JSONObject after "{": a key is expected at i
ParseObjectItems(s, i, ks, vs) ==
    IF i > Len(s) \/ s[i] # Quote THEN ParseFail
    ELSE LET k == ParseString(s, i)
             c == SkipWs(s, k.next)
         IN  IF ~k.ok \/ c > Len(s) \/ s[c] # ":" THEN ParseFail
             ELSE LET r == ParseValue(s, SkipWs(s, c + 1))
                      j == SkipWs(s, r.next)
                  IN  IF ~r.ok \/ j > Len(s) THEN ParseFail
                      ELSE IF s[j] = "}"
                           THEN Parsed(PyDict(Append(ks, k.val.s), Append(vs, r.val)), j + 1)
                      ELSE IF s[j] = ","
                           THEN ParseObjectItems(s, SkipWs(s, j + 1),
                                                 Append(ks, k.val.s), Append(vs, r.val))
                      ELSE ParseFail

\* scan_once
ParseValue(s, i) ==
    IF i > Len(s) THEN ParseFail
    ELSE IF s[i] = Quote THEN ParseString(s, i)
    ELSE IF s[i] = "{" THEN
        LET j == SkipWs(s, i + 1)
        IN  IF j <= Len(s) /\ s[j] = "}" THEN Parsed(PyDict(<<>>, <<>>), j + 1)
            ELSE ParseObjectItems(s, j, <<>>, <<>>)
    ELSE IF s[i] = "[" THEN
        LET j == SkipWs(s, i + 1)
        IN  IF j <= Len(s) /\ s[j] = "]" THEN Parsed(PyList(<<>>), j + 1)
            ELSE ParseArrayItems(s, j, <<>>)
    ELSE IF s[i] = "n" THEN ParseNull(s, i)
    ELSE IF s[i] = "-" \/ IsDigit(s[i]) THEN ParseNumber(s, i)
    ELSE ParseFail

\* json.loads: one value, then nothing but whitespace
Loads(s) ==
    LET r == ParseValue(s, SkipWs(s, 1))
    IN  IF r.ok /\ SkipWs(s, r.next) > Len(s) THEN r ELSE ParseFail

(***************************************************************************)
(* The inputs of the model: the object graphs a caller hands to            *)
(* save_to_json, and the files that may already be on disk.                *)
(***************************************************************************)
RECURSIVE SeqsUpTo(_, _)
SeqsUpTo(S, n) ==
    IF n = 0 THEN {<<>>}
    ELSE LET shorter == SeqsUpTo(S, n - 1)
         IN  shorter \cup {Append(q, x) : q \in shorter, x \in S}

\* the i-th key of a generated mapping: "k1", "k2", ...
KeyName(i) == <<"k">> \o NatStr(i)
MapOf(vs) == PyDict([i \in 1..Len(vs) |-> KeyName(i)], vs)

T0 == [year |-> 2024, month |-> 1, day |-> 1, hour |-> 0, minute |-> 0,
       second |-> 0, microsecond |-> 0]

\* every combination of capabilities and class tests the hook distinguishes
CapObjs ==
    {PyObj(a, c, PyList(<<PyComplex(3, 4)>>), MapOf(<<PyDatetime(T0)>>), 3, 4, T0) :
        a \in SUBSET {"tolist", "to_dict"}, c \in {"object", "complex", "datetime"}}

Natives == {PyInt(1), PyStr(<<"a">>), PyNone}
Elems == {PyInt(1), Unsupported}
Lists == {PyList(q) : q \in SeqsUpTo(Elems, MaxLen)}
MapVals == {PyInt(12), ArrayLike(PyList(<<Unsupported>>))}
Maps == {MapOf(q) : q \in SeqsUpTo(MapVals, MaxLen)}
SmallMaps == {MapOf(<<PyInt(1)>>), MapOf(<<PyComplex(3, 4)>>)}

Inputs ==
    Natives \cup CapObjs \cup Lists
    \cup {ArrayLike(l) : l \in Lists}
    \cup {DomainObj("BackendProperties", m) : m \in Maps}
    \cup {DomainObj("Result", m) : m \in SmallMaps}
    \cup {PyList(q) : q \in SeqsUpTo({DomainObj("Result", m) : m \in SmallMaps}, MaxLen)}

\* the text json.dump writes for an encodable value
Serialization(v) == Concat(IterEncode(v).chunks)

NoFile == [exists |-> FALSE, data |-> <<>>]
FileOf(text) == [exists |-> TRUE, data |-> text]
\* no file; a file holding one mapping; a file holding an array of mappings
InitFiles ==
    {NoFile,
     FileOf(Serialization(MapOf(<<PyInt(1)>>))),
     FileOf(Serialization(PyList(<<MapOf(<<PyInt(1)>>), MapOf(<<>>)>>)))}

(***************************************************************************)
(* State.                                                                  *)
(*   file      the file at filename: whether it exists, and its text       *)
(*   schema    the keys the external factories require of a mapping        *)
(* and for each caller p:                                                  *)
(*   obj       the object the caller saves                                 *)
(*   op, pc    the operation in progress and the position in it            *)
(*   handle    the file object of the with-statement: open?, the offset    *)
(*             of its next write to the file, and its unflushed buffer     *)
(*   it        the chunk generator of json.dump: chunks left, error at end *)
(*   tmp       the parsed JSON value (the local tmp of the loaders)        *)
(*   acc, idx  the list under construction by the list comprehension      *)
(*   pending   what leaves the with-block: "return" or the exception       *)
(*   outcome   what reached the caller, result the value returned          *)
(*   calls     the calls the caller has started                            *)
(*   before    the file as it was when the current call started            *)
(*   hist      the operations completed, with their outcomes               *)
(*   opens     the handles the current call has opened                     *)
(*   overlap   whether a call opened the file while another had it open    *)
(*   closed    the callers in the order in which their handles were closed *)
(***************************************************************************)
VARIABLES file, schema, obj, op, pc, handle, it, tmp, acc, idx,
          pending, outcome, result, calls, before, hist, opens, overlap, closed

vars == <<file, schema, obj, op, pc, handle, it, tmp, acc, idx,
          pending, outcome, result, calls, before, hist, opens, overlap, closed>>

Procs == 1..NumWriters

NoHandle == [open |-> FALSE, pos |-> 0, buf |-> <<>>]
NoIter == [chunks |-> <<>>, err |-> FALSE]
NoResult == [t |-> "noresult"]

\* the file after data is written at offset pos (a gap is filled with NULs)
WriteAt(f, pos, data) ==
    LET n == IF Len(f.data) > pos + Len(data) THEN Len(f.data) ELSE pos + Len(data)
    IN  [exists |-> TRUE,
         data |-> [i \in 1..n |->
                     IF i > pos /\ i <= pos + Len(data) THEN data[i - pos]
                     ELSE IF i <= Len(f.data) THEN f.data[i]
                     ELSE "NUL"]]

\* flushing the handle's buffer to the file
Flushed(f, h) == IF h.buf = <<>> THEN f ELSE WriteAt(f, h.pos, h.buf)
AfterFlush(h) == [h EXCEPT !.pos = h.pos + Len(h.buf), !.buf = <<>>]

(***************************************************************************)
(* Helpers of the actions.                                                 *)
(***************************************************************************)
\* open(filename, 'w') on a writable path: the file is created or emptied
NotTruncated(f) == [exists |-> TRUE, data |-> f.data]
Truncated(f) == FileOf(<<>>)

\* leaving the with-block: the handle is closed whatever is pending
CloseOnlyOnReturn(h, what) == IF what = "return" THEN NoHandle ELSE AfterFlush(h)
CloseOnExit(h, what) == NoHandle

\* the external factories BackendProperties.from_dict / Result.from_dict:
\* a value that is no mapping is rejected, and so is a mapping that lacks a
\* key the factory requires; the object built is the one whose mapping form
\* is m
ToSet(q) == {q[i] : i \in 1..Len(q)}
Accepts(required, m) == m.t = "dict" /\ required \subseteq ToSet(m.keys)
FromDictOfResult(cls, m, required) ==
    IF Accepts(required, m) THEN Return(DomainObj("Result", m))
    ELSE [raised |-> TRUE, val |-> NoResult]
FromDict(cls, m, required) ==
    IF Accepts(required, m) THEN Return(DomainObj(cls, m))
    ELSE [raised |-> TRUE, val |-> NoResult]

\* one more element of the list comprehension of load_result
ComprehendReversed(sofar, x) == <<x>> \o sofar
Comprehend(sofar, x) == Append(sofar, x)

\* the isinstance(tmp, list) test of load_result
IsTuple(v) == v.t = "tuple"
IsList(v) == v.t = "list"

\* an exception raised in a loader leaves with nothing returned
PropagateWithPartial(exc, sofar) == [pending |-> "return", result |-> PyList(sofar)]
Propagate(exc, sofar) == [pending |-> exc, result |-> NoResult]

Done(p, o, out) ==
    /\ pc' = [pc EXCEPT ![p] = "done"]
    /\ outcome' = [outcome EXCEPT ![p] = out]
    /\ hist' = [hist EXCEPT ![p] = Append(@, [op |-> o, outcome |-> out])]

(***************************************************************************)
(* The caller starts an operation.                                         *)
(***************************************************************************)
Call(p, o) ==
    /\ pc[p] \in {"idle", "done"}
    /\ calls[p] < MaxCalls
    /\ calls' = [calls EXCEPT ![p] = @ + 1]
    /\ op' = [op EXCEPT ![p] = o]
    /\ pc' = [pc EXCEPT ![p] = "open"]
    /\ outcome' = [outcome EXCEPT ![p] = "running"]
    /\ pending' = [pending EXCEPT ![p] = "none"]
    /\ result' = [result EXCEPT ![p] = NoResult]
    /\ before' = [before EXCEPT ![p] = file]
    /\ opens' = [opens EXCEPT ![p] = 0]
    /\ UNCHANGED <<file, schema, obj, handle, it, tmp, acc, idx, hist, overlap, closed>>

CallSave(p) == Call(p, "save_to_json")
CallLoadProperties(p) == Call(p, "load_properties")
CallLoadResult(p) == Call(p, "load_result")

(***************************************************************************)
(* save_to_json(obj, filename)                                             *)
(***************************************************************************)
\* open(filename, 'w'); the path may not be writable
SaveOpen(p) ==
    /\ op[p] = "save_to_json" /\ pc[p] = "open"
    /\ \E writable \in BOOLEAN :
       IF writable
       THEN /\ file' = Truncated(file)
            /\ handle' = [handle EXCEPT ![p] = [open |-> TRUE, pos |-> 0, buf |-> <<>>]]
            /\ opens' = [opens EXCEPT ![p] = @ + 1]
            /\ overlap' = (overlap \/ \E q \in Procs \ {p} : handle[q].open)
            /\ it' = [it EXCEPT ![p] = IterEncode(obj[p])]
            /\ pc' = [pc EXCEPT ![p] = "dump"]
            /\ UNCHANGED <<outcome, hist>>
       ELSE /\ Done(p, "save_to_json", "OSError")
            /\ UNCHANGED <<file, handle, opens, overlap, it>>
    /\ UNCHANGED <<schema, obj, op, tmp, acc, idx, pending, result, calls, before, closed>>

\* json.dump: fp.write(chunk) for the next chunk of the generator
SaveWrite(p) ==
    /\ op[p] = "save_to_json" /\ pc[p] = "dump"
    /\ it[p].chunks # <<>>
    /\ handle' = [handle EXCEPT ![p].buf = @ \o Head(it[p].chunks)]
    /\ it' = [it EXCEPT ![p].chunks = Tail(@)]
    /\ UNCHANGED <<file, schema, obj, op, pc, tmp, acc, idx, pending, outcome,
                   result, calls, before, hist, opens, overlap, closed>>

\* the handle's buffer is full and is written out (where in the text this
\* happens depends on the buffer size and the text: any chunk boundary)
SaveFlush(p) ==
    /\ op[p] = "save_to_json" /\ pc[p] = "dump"
    /\ handle[p].buf # <<>>
    /\ file' = Flushed(file, handle[p])
    /\ handle' = [handle EXCEPT ![p] = AfterFlush(@)]
    /\ UNCHANGED <<schema, obj, op, pc, it, tmp, acc, idx, pending, outcome,
                   result, calls, before, hist, opens, overlap, closed>>

\* the generator is exhausted, or the hook raised TypeError
SaveEnd(p) ==
    /\ op[p] = "save_to_json" /\ pc[p] = "dump"
    /\ it[p].chunks = <<>>
    /\ pending' = [pending EXCEPT ![p] = IF it[p].err THEN "TypeError" ELSE "return"]
    /\ pc' = [pc EXCEPT ![p] = "exit"]
    /\ UNCHANGED <<file, schema, obj, op, handle, it, tmp, acc, idx, outcome,
                   result, calls, before, hist, opens, overlap, closed>>

\* the end of a with-block: flush, close, and let what is pending through
WithExit(p) ==
    /\ pc[p] = "exit"
    /\ file' = Flushed(file, handle[p])
    /\ handle' = [handle EXCEPT ![p] = CloseOnExit(@, pending[p])]
    /\ closed' = Append(closed, p)
    /\ Done(p, op[p], pending[p])
    /\ it' = [it EXCEPT ![p] = NoIter]
    /\ tmp' = [tmp EXCEPT ![p] = NoResult]
    /\ acc' = [acc EXCEPT ![p] = <<>>]
    /\ idx' = [idx EXCEPT ![p] = 1]
    /\ UNCHANGED <<schema, obj, op, pending, result, calls, before, opens, overlap>>

SaveExit(p) == op[p] = "save_to_json" /\ WithExit(p)

(***************************************************************************)
(* load_properties(filename) and load_result(filename)                     *)
(***************************************************************************)
\* open(filename, 'r')
OpenForRead(p) ==
    /\ pc[p] = "open"
    /\ IF file.exists
       THEN /\ handle' = [handle EXCEPT ![p] = [open |-> TRUE, pos |-> 0, buf |-> <<>>]]
            /\ opens' = [opens EXCEPT ![p] = @ + 1]
            /\ overlap' = (overlap \/ \E q \in Procs \ {p} : handle[q].open)
            /\ pc' = [pc EXCEPT ![p] = "parse"]
            /\ UNCHANGED <<outcome, hist>>
       ELSE /\ Done(p, op[p], "OSError")
            /\ UNCHANGED <<handle, opens, overlap>>
    /\ UNCHANGED <<file, schema, obj, op, it, tmp, acc, idx, pending, result,
                   calls, before, closed>>

\* json.load(file); a list goes on at whenList (load_result's isinstance test)
ParseFile(p, whenList) ==
    /\ pc[p] = "parse"
    /\ LET r == Loads(file.data)
       IN  IF r.ok
           THEN /\ tmp' = [tmp EXCEPT ![p] = r.val]
                /\ pc' = [pc EXCEPT ![p] = IF IsList(r.val) THEN whenList ELSE "build"]
                /\ UNCHANGED pending
           ELSE /\ pending' = [pending EXCEPT ![p] = "JSONDecodeError"]
                /\ pc' = [pc EXCEPT ![p] = "exit"]
                /\ UNCHANGED tmp
    /\ UNCHANGED <<file, schema, obj, op, handle, it, acc, idx, outcome, result,
                   calls, before, hist, opens, overlap, closed>>

\* return <factory>(tmp)
BuildOne(p, cls) ==
    /\ pc[p] = "build"
    /\ LET r == FromDict(cls, tmp[p], schema)
           e == Propagate("FactoryError", <<>>)
       IN  IF r.raised
           THEN pending' = [pending EXCEPT ![p] = e.pending]
                /\ result' = [result EXCEPT ![p] = e.result]
           ELSE pending' = [pending EXCEPT ![p] = "return"]
                /\ result' = [result EXCEPT ![p] = r.val]
    /\ pc' = [pc EXCEPT ![p] = "exit"]
    /\ UNCHANGED <<file, schema, obj, op, handle, it, tmp, acc, idx, outcome,
                   calls, before, hist, opens, overlap, closed>>

LoadPropertiesOpen(p) == op[p] = "load_properties" /\ OpenForRead(p)
LoadPropertiesParse(p) == op[p] = "load_properties" /\ ParseFile(p, "build")
LoadPropertiesBuild(p) == op[p] = "load_properties" /\ BuildOne(p, "BackendProperties")
LoadPropertiesExit(p) == op[p] = "load_properties" /\ WithExit(p)

LoadResultOpen(p) == op[p] = "load_result" /\ OpenForRead(p)
LoadResultParse(p) == op[p] = "load_result" /\ ParseFile(p, "each")
LoadResultBuild(p) == op[p] = "load_result" /\ BuildOne(p, "Result")
LoadResultExit(p) == op[p] = "load_result" /\ WithExit(p)

\* [Result.from_dict(i) for i in tmp]: the next element
LoadResultEach(p) ==
    /\ op[p] = "load_result" /\ pc[p] = "each"
    /\ idx[p] <= Len(tmp[p].items)
    /\ LET r == FromDict("Result", tmp[p].items[idx[p]], schema)
           e == Propagate("FactoryError", acc[p])
       IN  IF r.raised
           THEN /\ pending' = [pending EXCEPT ![p] = e.pending]
                /\ result' = [result EXCEPT ![p] = e.result]
                /\ pc' = [pc EXCEPT ![p] = "exit"]
                /\ UNCHANGED <<acc, idx>>
           ELSE /\ acc' = [acc EXCEPT ![p] = Comprehend(@, r.val)]
                /\ idx' = [idx EXCEPT ![p] = @ + 1]
                /\ UNCHANGED <<pending, result, pc>>
    /\ UNCHANGED <<file, schema, obj, op, handle, it, tmp, outcome,
                   calls, before, hist, opens, overlap, closed>>

\* the comprehension is complete: return the list
LoadResultReturnList(p) ==
    /\ op[p] = "load_result" /\ pc[p] = "each"
    /\ idx[p] > Len(tmp[p].items)
    /\ pending' = [pending EXCEPT ![p] = "return"]
    /\ result' = [result EXCEPT ![p] = PyList(acc[p])]
    /\ pc' = [pc EXCEPT ![p] = "exit"]
    /\ UNCHANGED <<file, schema, obj, op, handle, it, tmp, acc, idx, outcome,
                   calls, before, hist, opens, overlap, closed>>

(***************************************************************************)
(* Spec: one caller; it holds one object, finds any of the initial files   *)
(* on disk, and makes up to MaxCalls calls, each run to completion.        *)
(***************************************************************************)
\* the one caller of Spec: the first
Caller == CHOOSE p \in Procs : \A q \in Procs : p <= q

Init ==
    /\ file \in InitFiles
    /\ schema \in {{}, {KeyName(1)}}
    /\ obj \in {f \in [Procs -> Inputs] : \A q \in Procs \ {Caller} : f[q] = PyNone}
    /\ op = [p \in Procs |-> "none"]
    /\ pc = [p \in Procs |-> "idle"]
    /\ handle = [p \in Procs |-> NoHandle]
    /\ it = [p \in Procs |-> NoIter]
    /\ tmp = [p \in Procs |-> NoResult]
    /\ acc = [p \in Procs |-> <<>>]
    /\ idx = [p \in Procs |-> 1]
    /\ pending = [p \in Procs |-> "none"]
    /\ outcome = [p \in Procs |-> "none"]
    /\ result = [p \in Procs |-> NoResult]
    /\ calls = [p \in Procs |-> 0]
    /\ before = [p \in Procs |-> file]
    /\ hist = [p \in Procs |-> <<>>]
    /\ opens = [p \in Procs |-> 0]
    /\ overlap = FALSE
    /\ closed = <<>>

Next ==
    \/ CallSave(Caller)
    \/ CallLoadProperties(Caller)
    \/ CallLoadResult(Caller)
    \/ SaveOpen(Caller)
    \/ SaveWrite(Caller)
    \/ SaveFlush(Caller)
    \/ SaveEnd(Caller)
    \/ SaveExit(Caller)
    \/ LoadPropertiesOpen(Caller)
    \/ LoadPropertiesParse(Caller)
    \/ LoadPropertiesBuild(Caller)
    \/ LoadPropertiesExit(Caller)
    \/ LoadResultOpen(Caller)
    \/ LoadResultParse(Caller)
    \/ LoadResultBuild(Caller)
    \/ LoadResultEach(Caller)
    \/ LoadResultReturnList(Caller)
    \/ LoadResultExit(Caller)

Spec == Init /\ [][Next]_vars

(***************************************************************************)
(* SpecConc: NumWriters callers, each making one save_to_json call on the  *)
(* same filename, their steps interleaved in any order (no locking).       *)
(***************************************************************************)
ConcInputs == {MapOf(<<>>), PyList(<<PyInt(1)>>)}

InitConc ==
    /\ file = FileOf(Serialization(MapOf(<<PyInt(1)>>)))
    /\ schema = {}
    /\ obj \in [Procs -> ConcInputs]
    /\ op = [p \in Procs |-> "none"]
    /\ pc = [p \in Procs |-> "idle"]
    /\ handle = [p \in Procs |-> NoHandle]
    /\ it = [p \in Procs |-> NoIter]
    /\ tmp = [p \in Procs |-> NoResult]
    /\ acc = [p \in Procs |-> <<>>]
    /\ idx = [p \in Procs |-> 1]
    /\ pending = [p \in Procs |-> "none"]
    /\ outcome = [p \in Procs |-> "none"]
    /\ result = [p \in Procs |-> NoResult]
    /\ calls = [p \in Procs |-> 0]
    /\ before = [p \in Procs |-> file]
    /\ hist = [p \in Procs |-> <<>>]
    /\ opens = [p \in Procs |-> 0]
    /\ overlap = FALSE
    /\ closed = <<>>

CallSaveOnce(p) == calls[p] = 0 /\ CallSave(p)

NextConc ==
    \E p \in Procs :
        \/ CallSaveOnce(p)
        \/ SaveOpen(p)
        \/ SaveWrite(p)
        \/ SaveFlush(p)
        \/ SaveEnd(p)
        \/ SaveExit(p)

SpecConc == InitConc /\ [][NextConc]_vars

(***************************************************************************)
(* What the claims speak of, stated independently of the actions.          *)
(***************************************************************************)
Fin(p, o) == pc[p] = "done" /\ op[p] = o
SaveOp == "save_to_json"

\* the values the serializer reaches from v: the items of a list, the
\* values of a mapping, and what the applicable capability of an object gives
Reached(v) ==
    IF v.t = "list" THEN ToSet(v.items)
    ELSE IF v.t = "dict" THEN ToSet(v.vals)
    ELSE IF v.t # "obj" THEN {}
    ELSE IF "tolist" \in v.attrs THEN {v.lst}
    ELSE IF v.isa \in {"complex", "datetime"} THEN {}
    ELSE IF "to_dict" \in v.attrs THEN {v.map}
    ELSE {}

NoBranch(v) ==
    v.t = "obj" /\ v.attrs = {} /\ v.isa \notin {"complex", "datetime"}

RECURSIVE ContainsUnsupported(_)
ContainsUnsupported(v) ==
    NoBranch(v) \/ \E w \in Reached(v) : ContainsUnsupported(w)

\* the JSON value an encodable object graph stands for
RECURSIVE JsonForm(_)
JsonForm(v) ==
    IF v.t = "list" THEN PyList([i \in 1..Len(v.items) |-> JsonForm(v.items[i])])
    ELSE IF v.t = "dict"
         THEN PyDict(v.keys, [i \in 1..Len(v.vals) |-> JsonForm(v.vals[i])])
    ELSE IF v.t # "obj" THEN v
    ELSE IF "tolist" \in v.attrs THEN JsonForm(v.lst)
    ELSE IF v.isa = "complex"
         THEN PyList(<<PyFloat(v.re, <<"0">>), PyFloat(v.im, <<"0">>)>>)
    ELSE IF v.isa = "datetime" THEN PyStr(isoformat(v.dt))
    ELSE JsonForm(v.map)

\* built only of primitives, lists and string-keyed mappings
RECURSIVE IsJsonNative(_)
IsJsonNative(v) ==
    /\ v.t \in {"int", "float", "str", "none", "list", "dict"}
    /\ v.t = "list" => \A i \in 1..Len(v.items) : IsJsonNative(v.items[i])
    /\ v.t = "dict" => \A i \in 1..Len(v.vals) : IsJsonNative(v.vals[i])

\* x is the number n, as an int or as a float
SameNumber(x, n) ==
    \/ x.t = "int" /\ x.n = n
    \/ x.t = "float" /\ x.whole = n /\ x.frac = <<"0">>

ResultsOf(items) == [i \in 1..Len(items) |-> DomainObj("Result", items[i])]
AllAccepted(items) == \A i \in 1..Len(items) : Accepts(schema, items[i])

\* the file as JSON
FileJson == Loads(file.data)

(***************************************************************************)
(* C1.  The hook decides every value by the first applicable branch in the *)
(* order tolist, complex, datetime, to_dict, error: a completed save of an *)
(* object leaves in the file the text of the form that branch gives (an    *)
(* object with both tolist and to_dict: its sequence form), an object with *)
(* no branch ends the save with TypeError, and 3+4j is written as the      *)
(* two-element sequence of the numbers 3 and 4.                            *)
(***************************************************************************)
FirstBranchForm(v) ==
    IF "tolist" \in v.attrs THEN v.lst
    ELSE IF v.isa = "complex"
         THEN PyList(<<PyFloat(v.re, <<"0">>), PyFloat(v.im, <<"0">>)>>)
    ELSE IF v.isa = "datetime" THEN PyStr(isoformat(v.dt))
    ELSE v.map

C1_FirstBranchDecides ==
    \A p \in Procs :
        (Fin(p, SaveOp) /\ outcome[p] # "OSError" /\ obj[p].t = "obj") =>
            LET v == obj[p]
                none == v.attrs = {} /\ v.isa \notin {"complex", "datetime"}
            IN  /\ none => default(v).raised /\ outcome[p] = "TypeError" /\ file.data = <<>>
                /\ ~none => /\ default(v) = Return(FirstBranchForm(v))
                            /\ outcome[p] = "return" =>
                                 file.data = Serialization(FirstBranchForm(v))
                /\ (v.attrs = {} /\ v.isa = "complex" /\ v.re = 3 /\ v.im = 4) =>
                     /\ outcome[p] = "return"
                     /\ FileJson.ok /\ FileJson.val.t = "list"
                     /\ Len(FileJson.val.items) = 2
                     /\ SameNumber(FileJson.val.items[1], 3)
                     /\ SameNumber(FileJson.val.items[2], 4)

C1_Witness ==
    \E p \in Procs :
        /\ Fin(p, SaveOp) /\ outcome[p] = "return"
        /\ obj[p].t = "obj" /\ obj[p].attrs = {"tolist", "to_dict"}
        /\ file.data = Serialization(obj[p].lst)
        /\ file.data # Serialization(obj[p].map)

(***************************************************************************)
(* C2.  load_result on a file holding a JSON array of N values builds the  *)
(* results element by element in file order, and, every element being one  *)
(* the factory accepts, returns the list of exactly those N results: the   *)
(* i-th is the reconstruction of the i-th element.                         *)
(***************************************************************************)
C2_ArrayInFileOrder ==
    \A p \in Procs :
        /\ (op[p] = "load_result" /\ pc[p] = "each") =>
              /\ idx[p] <= Len(tmp[p].items) + 1
              /\ acc[p] = ResultsOf(SubSeq(tmp[p].items, 1, idx[p] - 1))
        /\ (Fin(p, "load_result") /\ FileJson.ok /\ FileJson.val.t = "list"
            /\ AllAccepted(FileJson.val.items)) =>
              /\ outcome[p] = "return"
              /\ result[p] = PyList(ResultsOf(FileJson.val.items))
              /\ Len(result[p].items) = Len(FileJson.val.items)

C2_Witness ==
    \E p \in Procs :
        /\ Fin(p, "load_result") /\ outcome[p] = "return"
        /\ FileJson.ok /\ FileJson.val.t = "list"
        /\ Len(result[p].items) = 2
        /\ result[p].items[1] # result[p].items[2]
        /\ result[p].items[1] = DomainObj("Result", FileJson.val.items[1])

(***************************************************************************)
(* C3.  load_result returns a list exactly when the top-level JSON value   *)
(* is an array; any other top-level value is handed to the factory and the *)
(* one object it builds is returned as it is, not wrapped.                 *)
(***************************************************************************)
C3_ShapeFollowsJson ==
    \A p \in Procs :
        (Fin(p, "load_result") /\ FileJson.ok) =>
            LET j == FileJson.val
            IN  /\ outcome[p] = "return" => (result[p].t = "list" <=> j.t = "list")
                /\ (j.t = "list" /\ AllAccepted(j.items)) =>
                       outcome[p] = "return" /\ result[p].t = "list"
                /\ (j.t # "list" /\ Accepts(schema, j)) =>
                       outcome[p] = "return" /\ result[p] = DomainObj("Result", j)
                /\ (j.t # "list" /\ ~Accepts(schema, j)) =>
                       outcome[p] = "FactoryError"

C3_Witness ==
    \E p \in Procs :
        /\ Fin(p, "load_result") /\ outcome[p] = "return"
        /\ FileJson.ok /\ FileJson.val.t = "dict"
        /\ result[p] = DomainObj("Result", FileJson.val)

(***************************************************************************)
(* C4.  Round trip.  The case: the caller's last two calls were a save     *)
(* that completed and then the matching loader, which returned.            *)
(***************************************************************************)
IsDomain(v, cls) == v.t = "obj" /\ v.attrs = {"to_dict"} /\ v.isa = cls

\* the loader that rebuilds what v is
Matching(v, o) ==
    \/ IsDomain(v, "BackendProperties") /\ o = "load_properties"
    \/ IsDomain(v, "Result") /\ o = "load_result"
    \/ /\ v.t = "list" /\ o = "load_result"
       /\ \A i \in 1..Len(v.items) : IsDomain(v.items[i], "Result")

SavedThenLoaded(p) ==
    /\ pc[p] = "done" /\ Len(hist[p]) >= 2
    /\ hist[p][Len(hist[p]) - 1] = [op |-> SaveOp, outcome |-> "return"]
    /\ hist[p][Len(hist[p])] = [op |-> op[p], outcome |-> "return"]
    /\ Matching(obj[p], op[p])

\* the mapping form(s) of v hold JSON-native values only
NativeMappings(v) ==
    IF v.t = "list" THEN \A i \in 1..Len(v.items) : IsJsonNative(v.items[i].map)
    ELSE IsJsonNative(v.map)

\* what the loader builds from the JSON value j
Rebuilt(v, j) ==
    IF v.t = "list" THEN PyList(ResultsOf(j.items)) ELSE DomainObj(v.isa, j)

IsPrefix(a, b) == Len(a) <= Len(b) /\ SubSeq(b, 1, Len(a)) = a

C5_UnsupportedLeavesNoJson ==
    \A p \in Procs :
        (Fin(p, SaveOp) /\ outcome[p] # "OSError" /\ ContainsUnsupported(obj[p])) =>
            /\ outcome[p] = "TypeError"
            /\ file.exists
            /\ ~FileJson.ok

C5_Witness ==
    \E p \in Procs :
        /\ Fin(p, SaveOp) /\ outcome[p] = "TypeError"
        /\ IsDomain(obj[p], "BackendProperties")
        /\ Len(obj[p].map.vals) = 2
        /\ ~ContainsUnsupported(obj[p].map.vals[1])
        /\ ContainsUnsupported(obj[p].map.vals[2])
        /\ file.data # <<>> /\ ~FileJson.ok

(***************************************************************************)
(* C6.  Encoding is total: a save that got to encode ends either complete, *)
(* the file holding the JSON text of the object graph with every tolist  *)
(* and to_dict output encoded in turn (only primitives, lists and          *)
(* string-keyed mappings), or with the encoding error; it is the error     *)
(* exactly when a value without a branch is reached at some depth.         *)
(***************************************************************************)
C6_EncodingTotal ==
    \A p \in Procs :
        (Fin(p, SaveOp) /\ outcome[p] # "OSError") =>
            /\ outcome[p] \in {"return", "TypeError"}
            /\ outcome[p] = "TypeError" <=> ContainsUnsupported(obj[p])
            /\ outcome[p] = "return" =>
                 /\ FileJson.ok
                 /\ IsJsonNative(FileJson.val)
                 /\ FileJson.val = JsonForm(obj[p])

C6_Witness ==
    \E p \in Procs :
        /\ Fin(p, SaveOp) /\ outcome[p] = "return"
        /\ obj[p].t = "obj" /\ "tolist" \in obj[p].attrs
        /\ \E i \in 1..Len(obj[p].lst.items) : obj[p].lst.items[i].t = "obj"
        /\ FileJson.ok /\ IsJsonNative(FileJson.val)

(***************************************************************************)
(* C7.  The handle an operation opens is closed on every exit path: once   *)
(* the operation has returned or raised no handle of it is open, and it    *)
(* never opens more than one.                                              *)
(***************************************************************************)
C7_HandleClosedOnExit ==
    \A p \in Procs :
        /\ opens[p] <= 1
        /\ handle[p].open => opens[p] = 1 /\ pc[p] \notin {"idle", "open", "done"}
        /\ pc[p] \in {"idle", "done"} => handle[p] = NoHandle

C7_Witness ==
    \E p \in Procs :
        /\ pc[p] = "done" /\ Len(hist[p]) = 2
        /\ hist[p][1] = [op |-> SaveOp, outcome |-> "TypeError"]
        /\ hist[p][2] = [op |-> "load_result", outcome |-> "JSONDecodeError"]
        /\ opens[p] = 1 /\ handle[p] = NoHandle

(***************************************************************************)
(* C8.  Every failure ends the operation with that failure and nothing     *)
(* else: each call has one outcome, a failed call returns no value, a      *)
(* missing file is the filesystem error, malformed text the parse error,   *)
(* a rejected mapping the factory's error; when load_result reads an array *)
(* and the factory rejects an element, the call fails with the factory's   *)
(* error and returns nothing of what it had already built.                 *)
(***************************************************************************)
IsLoad(o) == o \in {"load_properties", "load_result"}

C8_FailuresReachCaller ==
    \A p \in Procs :
        /\ pc[p] \in {"idle", "done"} => Len(hist[p]) = calls[p]
        /\ (pc[p] = "done" /\ outcome[p] # "return") => result[p] = NoResult
        /\ (pc[p] = "done" /\ IsLoad(op[p])) =>
              /\ ~file.exists => outcome[p] = "OSError"
              /\ (file.exists /\ ~FileJson.ok) => outcome[p] = "JSONDecodeError"
        /\ (Fin(p, "load_properties") /\ FileJson.ok /\ ~Accepts(schema, FileJson.val)) =>
              outcome[p] = "FactoryError"
        /\ (Fin(p, "load_result") /\ FileJson.ok /\ FileJson.val.t = "list"
            /\ ~AllAccepted(FileJson.val.items)) =>
              outcome[p] = "FactoryError" /\ result[p] = NoResult

C8_Witness ==
    \E p \in Procs :
        /\ Fin(p, "load_result") /\ outcome[p] = "FactoryError"
        /\ FileJson.ok /\ FileJson.val.t = "list" /\ Len(FileJson.val.items) = 2
        /\ Accepts(schema, FileJson.val.items[1])
        /\ ~Accepts(schema, FileJson.val.items[2])
        /\ result[p] = NoResult

(***************************************************************************)
(* C9.  Concurrent saves on one filename (SpecConc).                       *)
(***************************************************************************)
AllSaved == \A p \in Procs : Fin(p, SaveOp) /\ outcome[p] = "return"

\* C9 as claimed: once all the saves have finished, the file holds exactly
\* the complete serialization written by one of them.
C9_LastWriterWins ==
    AllSaved => \E p \in Procs : file.data = Serialization(obj[p])

\* C9 as amended: when no save opened the file while another save's handle
\* was open, the file holds, once all have finished, exactly the complete
\* serialization of the last save to open it.
C9_LastWriterWinsWithoutOverlap ==
    \A p \in Procs :
        ((\A q \in Procs : pc[q] = "done") /\ ~overlap /\ closed # <<>>
         /\ p = closed[Len(closed)] /\ outcome[p] = "return") =>
            file.data = Serialization(obj[p])

C9_Witness ==
    /\ AllSaved /\ ~overlap /\ Len(closed) = NumWriters
    /\ \E q \in Procs : Len(Serialization(obj[q])) > Len(file.data)
    /\ file.data = Serialization(obj[closed[Len(closed)]])

(***************************************************************************)
(* C10.  save_to_json empties the file when it opens it, before anything  *)
(* is encoded: from the open on the file holds only what this call has     *)
(* written, so after an encoding error the previous contents are gone (the *)
(* file is the prefix written before the error); a save that could not     *)
(* open the file leaves it as it was.                                      *)
(***************************************************************************)
C10_TruncatedAtOpen ==
    \A p \in Procs :
        /\ (op[p] = SaveOp /\ pc[p] \in {"dump", "exit"}) =>
              /\ file.exists
              /\ file.data \o handle[p].buf \o Concat(it[p].chunks)
                    = Concat(IterEncode(obj[p]).chunks)
        /\ (Fin(p, SaveOp) /\ outcome[p] = "TypeError") =>
              file = FileOf(Concat(IterEncode(obj[p]).chunks))
        /\ (Fin(p, SaveOp) /\ outcome[p] = "OSError") => file = before[p]

C10_Witness ==
    \E p \in Procs :
        /\ Fin(p, SaveOp) /\ outcome[p] = "TypeError"
        /\ before[p].exists /\ Loads(before[p].data).ok
        /\ ~IsPrefix(before[p].data, file.data)
        /\ file.data # <<>>

====
